---- MODULE Spec2Model ----
(***************************************************************************)
(* Model of the music-genre-classifier backend (backend/app/main.py and    *)
(* backend/app/utils.py).                                                  *)
(*                                                                         *)
(* Python floats are modelled as exact rationals <<n, d>> in lowest terms  *)
(* with d > 0; rounding of IEEE doubles is not modelled.  A division by    *)
(* zero raises ZeroDivisionError, as Python's float division does.         *)
(* An operator that can raise returns a record whose field "raised" tells  *)
(* whether an exception left it.  The wall-clock timestamp of the          *)
(* responses is not modelled.                                              *)
(***************************************************************************)
EXTENDS Integers, Sequences, FiniteSets, TLC

(***************************************************************************)
(* Bound of the model.                                                     *)
(***************************************************************************)
MaxBatch == 2

(***************************************************************************)
(* Exact rational arithmetic standing for Python float arithmetic.         *)
(***************************************************************************)
Abs(x) == IF x < 0 THEN 0 - x ELSE x

RECURSIVE GCD(_, _)
GCD(a, b) == IF b = 0 THEN a ELSE GCD(b, a % b)

Rat(n, d) ==
    LET s == IF d < 0 THEN 0 - 1 ELSE 1
        g == GCD(Abs(n), Abs(d))
    IN  <<(s * n) \div g, (s * d) \div g>>

Zero == <<0, 1>>
One == <<1, 1>>
Int2Rat(i) == <<i, 1>>

RAdd(a, b) == Rat(a[1] * b[2] + b[1] * a[2], a[2] * b[2])
RSub(a, b) == Rat(a[1] * b[2] - b[1] * a[2], a[2] * b[2])
RMul(a, b) == Rat(a[1] * b[1], a[2] * b[2])
\* a / b for b # 0; the callers test b = Zero first (ZeroDivisionError)
RDiv(a, b) == Rat(a[1] * b[2], a[2] * b[1])
RLt(a, b) == a[1] * b[2] < b[1] * a[2]
RLe(a, b) == a[1] * b[2] <= b[1] * a[2]
RGt(a, b) == RLt(b, a)
\* Python's min(a, b): b when b < a, otherwise a
RMin(a, b) == IF RLt(b, a) THEN b ELSE a

(***************************************************************************)
(* GENRE_LABELS and the process-wide scorer state.                         *)
(***************************************************************************)
GENRE_LABELS ==
    <<"pop", "rock", "hip_hop", "jazz", "electronic",
      "classical", "r_b", "country", "metal", "folk">>

Genres == {GENRE_LABELS[i] : i \in 1..Len(GENRE_LABELS)}

\* values of the global MODEL: the path string it is initialised with, the
\* unpickled scorer object, and None (which the code tests for)
PathString == "backend/models/svm_model.pkl"
ScorerObject == "scorer"
None == "None"

(***************************************************************************)
(* Inputs: track records as the TrackData schema of main.py accepts them.  *)
(* main.py's TrackData declares no ranges, so out-of-range values reach    *)
(* the handlers; validate_audio_features tells which tracks are in range.  *)
(***************************************************************************)
FeatureKeys ==
    {"danceability", "energy", "loudness", "speechiness", "acousticness",
     "instrumentalness", "liveness", "valence", "tempo", "popularity"}

UnitVals == {Zero, Rat(1, 2), One}
EndVals == {Zero, One}
\* 0.4 is where the largest share of one genre is reached (rock, with all
\* other features and popularity at 0)
EnergyVals == UnitVals \cup {Rat(2, 5)}
\* the schema default 0.05 between the ends of the range
SpeechVals == {Zero, Rat(1, 20), One}
\* 0, 50 and 100 are in range; -650 and -1050 are below the declared range
PopularityVals ==
    {Zero, Int2Rat(50), Int2Rat(100), Int2Rat(0 - 650), Int2Rat(0 - 1050)}

TrackData(name, artist, d, e, s, a, i, v, p) ==
    [track_name |-> name, artists |-> artist, album_name |-> "",
     danceability |-> d, energy |-> e, loudness |-> Int2Rat(0 - 10),
     speechiness |-> s, acousticness |-> a, instrumentalness |-> i,
     liveness |-> Rat(1, 10), valence |-> v, tempo |-> Int2Rat(120),
     popularity |-> p]

FeatureTracks(names, artists) ==
    {TrackData(n, ar, d, e, s, a, i, v, p) :
        n \in names, ar \in artists, d \in UnitVals, e \in EnergyVals,
        s \in SpeechVals, a \in UnitVals, i \in EndVals, v \in UnitVals,
        p \in PopularityVals}

\* tracks sent to the single-track endpoint
Tracks == FeatureTracks({"Song A"}, {"X"})

\* four tracks with pairwise different identities: near the schema
\* defaults, two in-range extremes, and an out-of-range track whose ten raw
\* scores sum to zero.  They are the tracks of the batches, and of the
\* single-track requests made while a scorer is loaded (the features then
\* reach the response only through the fallback).
SampleTracks ==
    {TrackData("Song A", "X", Rat(1, 2), Rat(1, 2), Rat(1, 20), Rat(1, 2),
               Zero, Rat(1, 2), Int2Rat(50)),
     TrackData("Song B", "X", One, One, One, Zero, Zero, One, Int2Rat(100)),
     TrackData("Song A", "Y", Zero, Zero, Zero, One, One, Zero, Zero),
     TrackData("Song B", "Y", Zero, Zero, Zero, Zero, Zero, One,
               Int2Rat(0 - 650))}

\* utils.validate_audio_features; the same intervals are the Field ranges
\* of schemas.TrackData
valid_ranges ==
    [danceability |-> <<Zero, One>>, energy |-> <<Zero, One>>,
     loudness |-> <<Int2Rat(0 - 60), Zero>>, speechiness |-> <<Zero, One>>,
     acousticness |-> <<Zero, One>>, instrumentalness |-> <<Zero, One>>,
     liveness |-> <<Zero, One>>, valence |-> <<Zero, One>>,
     tempo |-> <<Int2Rat(60), Int2Rat(200)>>,
     popularity |-> <<Zero, Int2Rat(100)>>]

validate_audio_features(features) ==
    \A feature \in DOMAIN features :
        feature \in DOMAIN valid_ranges =>
            /\ RLe(valid_ranges[feature][1], features[feature])
            /\ RLe(features[feature], valid_ranges[feature][2])

\* the audio features of a track as a name -> value mapping
AudioFeatures(track_data) == [k \in FeatureKeys |-> track_data[k]]

(***************************************************************************)
(* Sums and means over a genre -> score mapping, in dictionary order.      *)
(***************************************************************************)
RECURSIVE SumUpTo(_, _)
SumUpTo(f, n) ==
    IF n = 0 THEN Zero ELSE RAdd(SumUpTo(f, n - 1), f[GENRE_LABELS[n]])

\* sum(d.values())
SumValues(f) == SumUpTo(f, Len(GENRE_LABELS))

\* np.mean(list(d.values()))
MeanValues(f) == RDiv(SumValues(f), Int2Rat(Len(GENRE_LABELS)))

RECURSIVE MaxUpTo(_, _)
MaxUpTo(f, n) ==
    IF n = 1 THEN f[GENRE_LABELS[1]]
    ELSE LET m == MaxUpTo(f, n - 1)
             x == f[GENRE_LABELS[n]]
         IN  IF RGt(x, m) THEN x ELSE m

\* max(d.values())
MaxValue(f) == MaxUpTo(f, Len(GENRE_LABELS))

\* a threshold test with >= in place of > (not the code's)
TopGenresAtLeast(predictions) ==
    LET Reaches(g) == RLe(Rat(1, 2), predictions[g])
    IN  SelectSeq(GENRE_LABELS, Reaches)

\* [genre for genre, prob in predictions.items() if prob > 0.5]
TopGenres(predictions) ==
    LET Above(g) == RGt(predictions[g], Rat(1, 2))
    IN  SelectSeq(GENRE_LABELS, Above)

\* utils.calculate_confidence, the tiered rule.  Its except branch (return
\* 0.5) needs values that cannot be compared and is not reachable with
\* numbers.
calculate_confidence(predictions) ==
    IF DOMAIN predictions = {} THEN Zero
    ELSE LET max_prob == MaxValue(predictions)
         IN  IF RGt(max_prob, Rat(7, 10))
             THEN RMin(One, RMul(max_prob, Rat(11, 10)))
             ELSE IF RGt(max_prob, Rat(3, 10))
                  THEN max_prob
                  ELSE RMul(max_prob, Rat(4, 5))

\* the confidence main.py computes on both paths: np.mean of the values
Confidence(predictions) == MeanValues(predictions)

(***************************************************************************)
(* Responses.                                                              *)
(***************************************************************************)
PredictionResponse(track, artists, predictions, top, confidence, version) ==
    [track |-> track, artists |-> artists, predictions |-> predictions,
     top_genres |-> top, confidence |-> confidence,
     model_version |-> version]

\* what a call leaves behind: whether an exception left it, the response
\* (when none did) and, as history, which code produced the probabilities:
\* "scorer" (the scorer's output), "random" (np.random.rand) or "heuristic"
Returned(resp, origin) == [raised |-> FALSE, resp |-> resp, origin |-> origin]
NoResponse ==
    PredictionResponse("", "", [g \in Genres |-> Zero], <<>>, Zero, "")
Raised(origin) == [raised |-> TRUE, resp |-> NoResponse, origin |-> origin]

(***************************************************************************)
(* The heuristic path of the service: main.demo_predict.                   *)
(***************************************************************************)
demo_base_probs(t) ==
    [pop |-> RMin(Rat(7, 10),
                  RAdd(RMul(t.danceability, Rat(4, 5)),
                       RMul(t.popularity, Rat(2, 1000)))),
     rock |-> RMin(Rat(6, 10),
                   RAdd(RMul(t.energy, Rat(7, 10)),
                        RMul(RSub(One, t.danceability), Rat(3, 10)))),
     hip_hop |-> RMin(Rat(5, 10),
                      RAdd(RMul(t.speechiness, Int2Rat(5)),
                           RMul(t.energy, Rat(3, 10)))),
     jazz |-> RMin(Rat(4, 10),
                   RAdd(RMul(t.acousticness, Rat(6, 10)),
                        RMul(RSub(One, t.energy), Rat(2, 10)))),
     electronic |-> RMin(Rat(8, 10),
                         RAdd(RMul(t.energy, Rat(7, 10)),
                              RMul(t.danceability, Rat(5, 10)))),
     classical |-> RMin(Rat(3, 10),
                        RAdd(RMul(t.instrumentalness, Rat(8, 10)),
                             RMul(t.acousticness, Rat(4, 10)))),
     r_b |-> RMin(Rat(5, 10),
                  RAdd(RMul(t.danceability, Rat(6, 10)),
                       RMul(t.valence, Rat(3, 10)))),
     country |-> RMin(Rat(4, 10),
                      RAdd(RMul(t.acousticness, Rat(5, 10)),
                           RMul(t.valence, Rat(3, 10)))),
     metal |-> RMin(Rat(3, 10),
                    RAdd(RMul(t.energy, Rat(8, 10)),
                         RMul(RSub(One, t.valence), Rat(2, 10)))),
     folk |-> RMin(Rat(3, 10),
                   RAdd(RMul(t.acousticness, Rat(7, 10)),
                        RMul(RSub(One, t.energy), Rat(2, 10))))]

\* a normalisation to a total of 1 in place of 0.8 (not the code's)
demo_normalize_to_one(base_probs, total) ==
    [genre \in Genres |-> RDiv(base_probs[genre], total)]

\* a scaling by 0.8 that never divides by the total (not the code's)
demo_scale_only(base_probs, total) ==
    [genre \in Genres |-> RMul(base_probs[genre], Rat(8, 10))]

\* {genre: prob / total * 0.8 for genre, prob in base_probs.items()}
demo_normalize(base_probs, total) ==
    [genre \in Genres |-> RMul(RDiv(base_probs[genre], total), Rat(8, 10))]

\* demo_predict divides by the total without testing it
demo_predict(track_data) ==
    LET base_probs == demo_base_probs(track_data)
        total == SumValues(base_probs)
    IN  IF total = Zero
        THEN Raised("heuristic")
        ELSE LET predictions == demo_normalize(base_probs, total)
             IN  Returned(PredictionResponse(track_data.track_name,
                                             track_data.artists,
                                             predictions,
                                             TopGenres(predictions),
                                             Confidence(predictions),
                                             "DEMO-MODE"),
                          "heuristic")

(***************************************************************************)
(* utils.generate_mock_predictions, over a name -> value mapping that may  *)
(* lack keys.  Its except branch (0.1 per genre) needs a value that is not *)
(* a number and is not reachable with numeric features.                    *)
(***************************************************************************)
Get(features, key, default) ==
    IF key \in DOMAIN features THEN features[key] ELSE default

mock_base_probs(f) ==
    [pop |-> RMin(Rat(7, 10),
                  RAdd(RMul(Get(f, "danceability", Rat(1, 2)), Rat(8, 10)),
                       RMul(Get(f, "popularity", Int2Rat(50)),
                            Rat(2, 1000)))),
     rock |-> RMin(Rat(6, 10),
                   RAdd(RMul(Get(f, "energy", Rat(1, 2)), Rat(7, 10)),
                        RMul(RSub(One, Get(f, "danceability", Rat(1, 2))),
                             Rat(3, 10)))),
     hip_hop |-> RMin(Rat(5, 10),
                      RAdd(RMul(Get(f, "speechiness", Rat(1, 20)),
                                Int2Rat(5)),
                           RMul(Get(f, "energy", Rat(1, 2)), Rat(3, 10)))),
     jazz |-> RMin(Rat(4, 10),
                   RAdd(RMul(Get(f, "acousticness", Rat(1, 10)), Rat(6, 10)),
                        RMul(RSub(One, Get(f, "energy", Rat(1, 2))),
                             Rat(2, 10)))),
     electronic |-> RMin(Rat(8, 10),
                         RAdd(RMul(Get(f, "energy", Rat(1, 2)), Rat(7, 10)),
                              RMul(Get(f, "danceability", Rat(1, 2)),
                                   Rat(5, 10)))),
     classical |-> RMin(Rat(3, 10),
                        RAdd(RMul(Get(f, "instrumentalness", Zero),
                                  Rat(8, 10)),
                             RMul(Get(f, "acousticness", Rat(1, 10)),
                                  Rat(4, 10)))),
     r_b |-> RMin(Rat(5, 10),
                  RAdd(RMul(Get(f, "danceability", Rat(1, 2)), Rat(6, 10)),
                       RMul(Get(f, "valence", Rat(1, 2)), Rat(3, 10)))),
     country |-> RMin(Rat(4, 10),
                      RAdd(RMul(Get(f, "acousticness", Rat(1, 10)),
                                Rat(5, 10)),
                           RMul(Get(f, "valence", Rat(1, 2)), Rat(3, 10)))),
     metal |-> RMin(Rat(3, 10),
                    RAdd(RMul(Get(f, "energy", Rat(1, 2)), Rat(8, 10)),
                         RMul(RSub(One, Get(f, "valence", Rat(1, 2))),
                              Rat(2, 10)))),
     folk |-> RMin(Rat(3, 10),
                   RAdd(RMul(Get(f, "acousticness", Rat(1, 10)), Rat(7, 10)),
                        RMul(RSub(One, Get(f, "energy", Rat(1, 2))),
                             Rat(2, 10))))]

generate_mock_predictions(features) ==
    LET base_probs == mock_base_probs(features)
        total == SumValues(base_probs)
    IN  IF RGt(total, Zero)
        THEN [genre \in Genres |->
                 RMul(RDiv(base_probs[genre], total), Rat(8, 10))]
        ELSE [genre \in Genres |-> Rat(8, 100)]

(***************************************************************************)
(* What MODEL.predict_proba hands back, as Python values: a number, a      *)
(* numpy array or a list (of values), or an object without a length.       *)
(***************************************************************************)
PyNum(r) == [t |-> "num", v |-> r, e |-> <<>>]
NdArray(es) == [t |-> "ndarray", v |-> Zero, e |-> es]
PyList(es) == [t |-> "list", v |-> Zero, e |-> es]
PyNone == [t |-> "none", v |-> Zero, e |-> <<>>]

\* hasattr(x, '__len__')
HasLen(x) == x.t \in {"ndarray", "list"}
\* isinstance(x, np.ndarray)
IsNdArray(x) == x.t = "ndarray"

Nums(row) == [i \in 1..Len(row) |-> PyNum(row[i])]

\* a row of n scores: x at position k, y at the other positions
Row(n, k, x, y) == [i \in 1..n |-> IF i = k THEN x ELSE y]

ProbVals == {Rat(1, 5), Rat(1, 2), Rat(9, 10)}
RowLens == {3, Len(GENRE_LABELS)}
Rows == {Row(n, k, x, y) : n \in RowLens, k \in {1, 2}, x \in ProbVals,
                           y \in ProbVals}

\* an N x K numpy matrix with N = 1: one row of per-genre probabilities
Matrix(row) == NdArray(<<NdArray(Nums(row))>>)
\* the same row as a plain list of lists
ListOfRows(row) == PyList(<<PyList(Nums(row))>>)
\* a 1-D numpy vector of scores
Vector(row) == NdArray(Nums(row))
\* a list of per-class pairs, each a numpy array [negative, positive]
PairList(row) ==
    PyList([i \in 1..Len(row) |->
               NdArray(<<PyNum(RSub(One, row[i])), PyNum(row[i])>>)])
\* a list of per-class arrays of shape (1, 2), one row per input sample
SamplePairList(row) ==
    PyList([i \in 1..Len(row) |->
               NdArray(<<NdArray(<<PyNum(RSub(One, row[i])),
                                   PyNum(row[i])>>)>>)])

ScorerOutputs ==
    {Matrix(r) : r \in Rows} \cup {ListOfRows(r) : r \in Rows}
        \cup {Vector(r) : r \in Rows} \cup {PairList(r) : r \in Rows}
        \cup {SamplePairList(r) : r \in Rows}
        \cup {PyList(<<>>), NdArray(<<>>), PyNone}

\* np.random.rand(len(GENRE_LABELS)): some ten numbers in [0, 1)
RandomRows ==
    {Row(Len(GENRE_LABELS), k, x, Rat(1, 5)) : k \in {1, 2},
                                               x \in {Zero, Rat(9, 10)}}
SomeRandomRow == Row(Len(GENRE_LABELS), 1, Zero, Rat(1, 5))

\* lines 170 and 175: does the code replace the output by random numbers
UsesRandom(out) == ~(HasLen(out) /\ Len(out.e) > 0)

\* the environment of one predict_proba call: whether the scorer raises,
\* what it returns, what np.random.rand would return
CallEnv(raises, out, rnd) == [raises |-> raises, out |-> out, rnd |-> rnd]
NoCall == CallEnv(TRUE, PyNone, SomeRandomRow)
CallEnvs ==
    {NoCall}
        \cup {CallEnv(FALSE, o, SomeRandomRow) :
                 o \in {x \in ScorerOutputs : ~UsesRandom(x)}}
        \cup {CallEnv(FALSE, o, r) :
                 o \in {x \in ScorerOutputs : UsesRandom(x)},
                 r \in RandomRows}

BatchRow == Row(Len(GENRE_LABELS), 2, Rat(9, 10), Rat(1, 5))
BatchCallEnvs ==
    {NoCall, CallEnv(FALSE, PairList(BatchRow), SomeRandomRow),
     CallEnv(FALSE, PyList(<<>>), SomeRandomRow)}

(***************************************************************************)
(* The trained path of main.predict_genres.                                *)
(***************************************************************************)
\* prob[1] for one element: IndexError / TypeError unless prob holds at
\* least two items
HasSecond(prob) == HasLen(prob) /\ Len(prob.e) >= 2

\* lines 170-176: the "different probability formats"
adapt_probabilities(probabilities, rnd) ==
    IF HasLen(probabilities) /\ Len(probabilities.e) > 0
    THEN IF IsNdArray(probabilities.e[1])
         THEN IF \A i \in 1..Len(probabilities.e) :
                     HasSecond(probabilities.e[i])
              THEN Returned(NdArray([i \in 1..Len(probabilities.e) |->
                                        probabilities.e[i].e[2]]),
                            "scorer")
              ELSE Raised("scorer")
         ELSE Returned(probabilities.e[1], "scorer")
    ELSE Returned(NdArray(Nums(rnd)), "random")

\* lines 179-184: len(probabilities) needs a length, float(probabilities[i])
\* needs a number
map_onto_labels(probabilities) ==
    IF ~HasLen(probabilities)
    THEN Raised("scorer")
    ELSE LET n == Len(probabilities.e)
             used == {i \in 1..Len(GENRE_LABELS) : i <= n}
         IN  IF \E i \in used : probabilities.e[i].t # "num"
             THEN Raised("scorer")
             ELSE Returned(
                      [genre \in Genres |->
                          LET i == CHOOSE j \in 1..Len(GENRE_LABELS) :
                                       GENRE_LABELS[j] = genre
                          IN  IF i <= n THEN probabilities.e[i].v
                              ELSE Zero],
                      "scorer")

\* the try block, lines 150-198
trained_attempt(model, track_data, env) ==
    IF model # ScorerObject
    THEN Raised("scorer")     \* a str has no predict_proba: AttributeError
    ELSE IF env.raises
    THEN Raised("scorer")
    ELSE LET adapted == adapt_probabilities(env.out, env.rnd)
         IN  IF adapted.raised
             THEN Raised("scorer")
             ELSE LET mapped == map_onto_labels(adapted.resp)
                  IN  IF mapped.raised
                      THEN Raised("scorer")
                      ELSE Returned(
                               PredictionResponse(track_data.track_name,
                                                  track_data.artists,
                                                  mapped.resp,
                                                  TopGenres(mapped.resp),
                                                  Confidence(mapped.resp),
                                                  "SVM-v2.0"),
                               adapted.origin)

\* the except clause, lines 199-202: fall back to demo mode
except_fallback(attempt, track_data) ==
    IF attempt.raised THEN demo_predict(track_data) ELSE attempt

predict_genres(model, track_data, env) ==
    IF model = None
    THEN demo_predict(track_data)
    ELSE except_fallback(trained_attempt(model, track_data, env), track_data)

(***************************************************************************)
(* main.predict_genres_batch.                                              *)
(***************************************************************************)
\* an aggregate that is never divided by the count (not the code's)
average_undivided(total, predictions) ==
    IF Len(predictions) > 0 THEN total ELSE Zero

\* total_confidence / len(predictions) if predictions else 0.0
average_confidence(total, predictions) ==
    IF Len(predictions) > 0
    THEN RDiv(total, Int2Rat(Len(predictions)))
    ELSE Zero

BatchPredictionResponse(predictions, total_tracks, avg) ==
    [predictions |-> predictions, total_tracks |-> total_tracks,
     average_confidence |-> avg]

NoBatchResponse == BatchPredictionResponse(<<>>, 0, Zero)

NoLoop ==
    [raised |-> FALSE, predictions |-> <<>>, total_confidence |-> Zero,
     origins |-> <<>>]

\* one iteration of the loop of lines 244-247: the awaited call appends its
\* result and adds its confidence; an exception of the call ends the loop
batch_step(before, call) ==
    [raised |-> call.raised,
     predictions |-> IF call.raised THEN before.predictions
                     ELSE Append(before.predictions, call.resp),
     total_confidence |-> IF call.raised THEN before.total_confidence
                          ELSE RAdd(before.total_confidence,
                                    call.resp.confidence),
     origins |-> Append(before.origins, call.origin)]

\* once a call has raised, the later tracks are not visited
batch_continue(before, model, track_data, env) ==
    IF before.raised THEN before
    ELSE batch_step(before, predict_genres(model, track_data, env))

RECURSIVE batch_loop(_, _, _, _)
\* the loop after its first n iterations
batch_loop(model, tracks, envs, n) ==
    IF n = 0 THEN NoLoop
    ELSE batch_continue(batch_loop(model, tracks, envs, n - 1), model,
                        tracks[n], envs[n])

\* lines 249-254; an exception of the loop leaves the handler before them
batch_response(loop) ==
    IF loop.raised
    THEN [raised |-> TRUE, resp |-> NoBatchResponse, origin |-> loop.origins]
    ELSE [raised |-> FALSE,
          resp |-> BatchPredictionResponse(
                       loop.predictions, Len(loop.predictions),
                       average_confidence(loop.total_confidence,
                                          loop.predictions)),
          origin |-> loop.origins]

predict_genres_batch(model, tracks, envs) ==
    batch_response(batch_loop(model, tracks, envs, Len(tracks)))

(***************************************************************************)
(* The service as a state machine.                                         *)
(***************************************************************************)
VARIABLES
    MODEL,       \* the global MODEL of main.py
    SCALER,      \* the global SCALER of main.py
    phase,       \* "boot" before the startup event, "serving" after it
    artifact,    \* history: what startup found at the model path
    request,     \* history: the input of the handler that ran last
    resp,        \* the response of the handler that ran last
    origins      \* history: which code produced each prediction of resp

vars == <<MODEL, SCALER, phase, artifact, request, resp, origins>>

NoRequest == [tracks |-> <<>>, envs |-> <<>>, features |-> <<>>]
NoResp == [kind |-> "none", status |-> "ok", body |-> <<>>]

Init ==
    /\ MODEL = PathString
    /\ SCALER = None
    /\ phase = "boot"
    /\ artifact = "unknown"
    /\ request = NoRequest
    /\ resp = NoResp
    /\ origins = <<>>

FileStates == {"absent", "loads", "corrupt"}

\* startup_event: one try block around both loads; an exception of
\* joblib.load is logged and ends the block
startup_event ==
    /\ phase = "boot"
    /\ \E modelFile \in FileStates, scalerFile \in FileStates :
          /\ MODEL' = IF modelFile = "loads" THEN ScorerObject ELSE MODEL
          /\ SCALER' = IF modelFile # "corrupt" /\ scalerFile = "loads"
                       THEN "scaler" ELSE SCALER
          /\ artifact' = modelFile
    /\ phase' = "serving"
    /\ UNCHANGED <<request, resp, origins>>

Idle == phase = "serving" /\ resp.kind = "none"

health_check ==
    /\ Idle
    /\ resp' = [kind |-> "health", status |-> "ok",
                body |-> [status |-> "healthy",
                          model_loaded |-> (MODEL # None),
                          version |-> "2.0.0"]]
    /\ UNCHANGED <<MODEL, SCALER, phase, artifact, request, origins>>

get_model_metrics ==
    /\ Idle
    /\ resp' = [kind |-> "metrics", status |-> "ok",
                body |-> [model_name |-> "Support Vector Machine (SVM)",
                          accuracy |-> Rat(948, 1000),
                          f1_score |-> Rat(451, 1000),
                          training_samples |-> 114000,
                          last_trained |-> "2025-11-11",
                          genres_supported |-> Len(GENRE_LABELS),
                          demo_mode |-> (MODEL = None)]]
    /\ UNCHANGED <<MODEL, SCALER, phase, artifact, request, origins>>

\* the framework answers with what the handler returned, or with an error
\* when an exception left the handler
Answer(kind, tracks, envs, call) ==
    /\ request' = [tracks |-> tracks, envs |-> envs, features |-> <<>>]
    /\ resp' = [kind |-> kind,
                status |-> IF call.raised THEN "error" ELSE "ok",
                body |-> call.resp]
    /\ origins' = IF kind = "batch" THEN call.origin ELSE <<call.origin>>

\* POST /api/predict
Predict ==
    /\ Idle
    /\ \E track_data \in (IF MODEL = ScorerObject THEN SampleTracks
                          ELSE Tracks) :
       \E env \in (IF MODEL = ScorerObject THEN CallEnvs ELSE {NoCall}) :
          Answer("predict", <<track_data>>, <<env>>,
                 predict_genres(MODEL, track_data, env))
    /\ UNCHANGED <<MODEL, SCALER, phase, artifact>>

BatchInputs(n) ==
    [1..n -> SampleTracks] \X
    [1..n -> (IF MODEL = ScorerObject THEN BatchCallEnvs ELSE {NoCall})]

\* POST /api/predict/batch
PredictBatch ==
    /\ Idle
    /\ \E n \in 0..MaxBatch :
       \E input \in BatchInputs(n) :
          Answer("batch", input[1], input[2],
                 predict_genres_batch(MODEL, input[1], input[2]))
    /\ UNCHANGED <<MODEL, SCALER, phase, artifact>>

\* name -> value mappings handed to utils.generate_mock_predictions: all
\* ten features of a track, all but popularity, or none at all
MockFeatures ==
    {[k \in FeatureKeys \ drop |-> t[k]] :
        t \in Tracks, drop \in {{}, {"popularity"}, FeatureKeys}}

\* a call of utils.generate_mock_predictions
GenerateMock ==
    /\ Idle
    /\ \E features \in MockFeatures :
          /\ request' = [tracks |-> <<>>, envs |-> <<>>,
                         features |-> features]
          /\ resp' = [kind |-> "mock", status |-> "ok",
                      body |-> generate_mock_predictions(features)]
    /\ origins' = <<"heuristic">>
    /\ UNCHANGED <<MODEL, SCALER, phase, artifact>>

\* the response has gone to the caller; the handlers keep nothing
Deliver ==
    /\ phase = "serving"
    /\ resp.kind # "none"
    /\ request' = NoRequest
    /\ resp' = NoResp
    /\ origins' = <<>>
    /\ UNCHANGED <<MODEL, SCALER, phase, artifact>>

Next ==
    \/ startup_event
    \/ health_check
    \/ get_model_metrics
    \/ Predict
    \/ PredictBatch
    \/ GenerateMock
    \/ Deliver

Spec == Init /\ [][Next]_vars

(***************************************************************************)
(* Properties.                                                             *)
(***************************************************************************)
\* the track and the scorer behaviour of the single-track request that ran
TheTrack == request.tracks[1]
TheEnv == request.envs[1]

SinglePrediction == resp.kind = "predict" /\ resp.status = "ok"

InRange(track_data) == validate_audio_features(AudioFeatures(track_data))

\* the prediction results of the response: the one of a single-track
\* response, all of a batch response
Results ==
    IF resp.status # "ok" THEN {}
    ELSE IF resp.kind = "predict" THEN {<<resp.body, origins[1]>>}
    ELSE IF resp.kind = "batch"
         THEN {<<resp.body.predictions[i], origins[i]>> :
                  i \in 1..Len(resp.body.predictions)}
         ELSE {}

\* the scorer was not loaded, raised, or returned nothing to index
ScorerFailed ==
    \/ MODEL # ScorerObject
    \/ TheEnv.raises
    \/ ~HasLen(TheEnv.out)
    \/ Len(TheEnv.out.e) = 0

\* C1: for a well-formed (in-range) track, whenever the trained scorer is
\* not loaded, raises, or returns an empty output, predict_genres answers
\* with a result of the heuristic path and raises nothing.
C1_FallsBackToHeuristic ==
    (resp.kind = "predict" /\ InRange(TheTrack) /\ ScorerFailed)
        => /\ resp.status = "ok"
           /\ origins[1] = "heuristic"
           /\ resp.body.model_version = "DEMO-MODE"

\* What the code does keep of C1: no request with an in-range track ends in
\* an error, whatever the scorer does.
InRangeTrackIsAnswered ==
    (resp.kind = "predict" /\ InRange(TheTrack)) => resp.status = "ok"

\* C2: after startup, health reports model_loaded exactly when a scorer
\* artifact was loaded, and metrics reports demo_mode exactly when none was.
C2_SurfacesReportLoading ==
    /\ resp.kind = "health"
          => (resp.body.model_loaded <=> artifact = "loads")
    /\ resp.kind = "metrics"
          => (resp.body.demo_mode <=> artifact # "loads")

\* C3: the confidence of every single-track result is the tiered function
\* of the maximum of its probabilities (1.1*m capped at 1 above 0.7, m
\* above 0.3, 0.8*m otherwise).
C3_ConfidenceIsTiered ==
    SinglePrediction
        => resp.body.confidence = calculate_confidence(resp.body.predictions)

WithinHeadroom(predictions) ==
    /\ RLe(SumValues(predictions), Rat(4, 5))
    /\ \A g \in Genres : /\ RLe(Zero, predictions[g])
                         /\ RLe(predictions[g], Rat(4, 5))

\* C4: for features inside their declared ranges the probabilities of the
\* heuristic path (demo_predict in the service, generate_mock_predictions
\* in utils) sum to at most 0.8 and each lies in [0, 0.8].
C4_HeuristicMassAtMostFourFifths ==
    /\ (resp.kind = "predict" /\ origins[1] = "heuristic"
            /\ InRange(TheTrack))
          => /\ resp.status = "ok"
             /\ WithinHeadroom(resp.body.predictions)
    /\ (resp.kind = "mock" /\ validate_audio_features(request.features))
          => WithinHeadroom(resp.body)

\* an in-range track answered by the heuristic path after the loaded scorer
\* raised, with the whole mass of 0.8 spread over several genres
C4_Witness ==
    /\ resp.kind = "predict" /\ resp.status = "ok"
    /\ MODEL = ScorerObject /\ TheEnv.raises
    /\ origins[1] = "heuristic"
    /\ InRange(TheTrack)
    /\ SumValues(resp.body.predictions) = Rat(4, 5)
    /\ \E g \in Genres : RGt(resp.body.predictions[g], Rat(1, 10))

\* C5: when the ten raw heuristic scores sum to a value <= 0, the heuristic
\* path raises nothing and answers 0.08 for each genre.
C5_ZeroSumGivesEqualShares ==
    (resp.kind = "predict" /\ origins[1] = "heuristic"
        /\ RLe(SumValues(demo_base_probs(TheTrack)), Zero))
        => /\ resp.status = "ok"
           /\ \A g \in Genres : resp.body.predictions[g] = Rat(8, 100)

\* a numpy matrix of one row of numbers
IsOneRowMatrix(out) ==
    /\ out.t = "ndarray" /\ Len(out.e) = 1
    /\ out.e[1].t = "ndarray"
    /\ \A j \in 1..Len(out.e[1].e) : out.e[1].e[j].t = "num"

\* a non-empty list of numpy pairs of numbers
IsPairList(out) ==
    /\ out.t = "list" /\ Len(out.e) > 0
    /\ \A j \in 1..Len(out.e) :
          /\ out.e[j].t = "ndarray" /\ Len(out.e[j].e) = 2
          /\ out.e[j].e[1].t = "num" /\ out.e[j].e[2].t = "num"

\* the genre at position i gets scores[i], the genres past the end get 0.0
MappedByPosition(predictions, scores) ==
    \A i \in 1..Len(GENRE_LABELS) :
        predictions[GENRE_LABELS[i]] =
            IF i <= Len(scores) THEN scores[i] ELSE Zero

\* C6: a one-row matrix returned by the scorer is mapped onto the genres by
\* position (0.0 past its end); a list of per-class pairs gives each genre
\* the positive-class entry of its pair.
C6_ScoresMappedByPosition ==
    (resp.kind = "predict" /\ MODEL = ScorerObject /\ ~TheEnv.raises)
        => /\ IsOneRowMatrix(TheEnv.out)
                 => /\ resp.status = "ok"
                    /\ origins[1] = "scorer"
                    /\ MappedByPosition(
                           resp.body.predictions,
                           [j \in 1..Len(TheEnv.out.e[1].e) |->
                               TheEnv.out.e[1].e[j].v])
           /\ IsPairList(TheEnv.out)
                 => /\ resp.status = "ok"
                    /\ origins[1] = "scorer"
                    /\ MappedByPosition(
                           resp.body.predictions,
                           [j \in 1..Len(TheEnv.out.e) |->
                               TheEnv.out.e[j].e[2].v])

\* C7: model_version is "SVM-v2.0" only when the probabilities came from
\* the scorer's output, and "DEMO-MODE" whenever the heuristic path
\* produced them.
C7_VersionTellsPath ==
    \A r \in Results :
        /\ r[1].model_version = "SVM-v2.0" => r[2] = "scorer"
        /\ r[2] = "heuristic" => r[1].model_version = "DEMO-MODE"

\* C8: top_genres of every prediction result lists exactly the genres whose
\* probability is strictly above 0.5, each once; when every probability is
\* 0.5 it is empty.
C8_TopGenresStrictlyAboveHalf ==
    \A r \in Results :
        LET top == r[1].top_genres
            predictions == r[1].predictions
        IN  /\ {top[i] : i \in 1..Len(top)}
                  = {g \in Genres : RLt(Rat(1, 2), predictions[g])}
            /\ Len(top) = Cardinality({top[i] : i \in 1..Len(top)})
            /\ (\A g \in Genres : predictions[g] = Rat(1, 2)) => top = <<>>

\* a trained-path result in which every genre stands at exactly 0.5
C8_Witness ==
    /\ SinglePrediction
    /\ origins[1] = "scorer"
    /\ \A g \in Genres : resp.body.predictions[g] = Rat(1, 2)
    /\ resp.body.top_genres = <<>>

\* C9: for every batch of N tracks the batch handler returns N predictions
\* with total_tracks = N, the i-th carrying the name and artists of the
\* i-th track.
C9_BatchKeepsOrder ==
    resp.kind = "batch"
        => /\ resp.status = "ok"
           /\ Len(resp.body.predictions) = Len(request.tracks)
           /\ resp.body.total_tracks = Len(request.tracks)
           /\ \A i \in 1..Len(request.tracks) :
                 /\ resp.body.predictions[i].track
                        = request.tracks[i].track_name
                 /\ resp.body.predictions[i].artists
                        = request.tracks[i].artists

\* What the code does keep of C9: a batch that is answered has one
\* prediction per track, in the order of the tracks.
AnsweredBatchKeepsOrder ==
    (resp.kind = "batch" /\ resp.status = "ok")
        => /\ Len(resp.body.predictions) = Len(request.tracks)
           /\ resp.body.total_tracks = Len(request.tracks)
           /\ \A i \in 1..Len(request.tracks) :
                 /\ resp.body.predictions[i].track
                        = request.tracks[i].track_name
                 /\ resp.body.predictions[i].artists
                        = request.tracks[i].artists

RECURSIVE SumConfidences(_)
SumConfidences(predictions) ==
    IF predictions = <<>> THEN Zero
    ELSE RAdd(Head(predictions).confidence, SumConfidences(Tail(predictions)))

\* C10: average_confidence of a batch result is the arithmetic mean of the
\* confidences of its predictions; a batch of no tracks is answered, with
\* average_confidence 0.0, total_tracks 0 and no predictions.
C10_BatchAverageIsMean ==
    resp.kind = "batch"
        => /\ (resp.status = "ok" /\ Len(resp.body.predictions) > 0)
                 => RMul(resp.body.average_confidence,
                         Int2Rat(Len(resp.body.predictions)))
                        = SumConfidences(resp.body.predictions)
           /\ Len(request.tracks) = 0
                 => /\ resp.status = "ok"
                    /\ resp.body.average_confidence = Zero
                    /\ resp.body.total_tracks = 0
                    /\ resp.body.predictions = <<>>

\* a batch of two tracks answered with two different confidences
C10_Witness ==
    /\ resp.kind = "batch" /\ resp.status = "ok"
    /\ Len(resp.body.predictions) = 2
    /\ resp.body.predictions[1].confidence
           # resp.body.predictions[2].confidence

\* no probability above 0.5, hence nothing for the threshold to select
NoneAboveHalf(predictions) ==
    \A g \in Genres : RLe(predictions[g], Rat(1, 2))

\* C11: for features inside their declared ranges no raw heuristic score
\* exceeds 62.5% of the raw total, so no heuristic probability exceeds 0.5
\* and every such DEMO-MODE result (single or in a batch) has an empty
\* top_genres; the same bound holds for generate_mock_predictions.
C11_HeuristicTopGenresEmpty ==
    /\ (resp.kind = "predict" /\ origins[1] = "heuristic"
            /\ InRange(TheTrack))
          => /\ resp.status = "ok"
             /\ \A g \in Genres :
                   RLe(demo_base_probs(TheTrack)[g],
                       RMul(Rat(5, 8), SumValues(demo_base_probs(TheTrack))))
             /\ NoneAboveHalf(resp.body.predictions)
             /\ resp.body.model_version = "DEMO-MODE"
             /\ resp.body.top_genres = <<>>
    /\ (resp.kind = "batch" /\ resp.status = "ok")
          => \A i \in 1..Len(request.tracks) :
                (origins[i] = "heuristic" /\ InRange(request.tracks[i]))
                    => /\ NoneAboveHalf(resp.body.predictions[i].predictions)
                       /\ resp.body.predictions[i].top_genres = <<>>
    /\ (resp.kind = "mock" /\ validate_audio_features(request.features))
          => NoneAboveHalf(resp.body)

\* the in-range heuristic result with the largest share of one genre:
\* rock at 29/95 (about 0.305), still with empty top_genres
C11_Witness ==
    /\ resp.kind = "predict" /\ resp.status = "ok"
    /\ origins[1] = "heuristic"
    /\ InRange(TheTrack)
    /\ resp.body.model_version = "DEMO-MODE"
    /\ resp.body.predictions["rock"] = Rat(29, 95)
    /\ resp.body.top_genres = <<>>

====
